---- MODULE Spec2Model ----
(***************************************************************************)
(* Model of FusionParamsAddIn.py: a Fusion 360 add-in that imports user    *)
(* parameters from a JSON file into the active design and exports them     *)
(* back, plus the registration of its two commands.                        *)
(***************************************************************************)
EXTENDS Integers, Sequences, FiniteSets, TLC

VARIABLES
    ui,             \* _ui is set (run has been called)
    cmdDefs,        \* _ui.commandDefinitions: command id -> number of definitions
    controls,       \* SolidScriptsAddinsPanel.controls: command id -> number of controls
    created,        \* command id -> commandCreated handlers hooked on the definition
    handlers,       \* Len(_handlers)
    activeProduct,  \* _app.activeProduct: [isDesign, parentDocument, userParameters]
    disk,           \* content of the file the dialogs select
    msgs,           \* message boxes shown by the most recent handler call
    call,           \* the most recent handler call: its inputs and the state it started in
    origin          \* the parameters whose export the file holds, when it holds one

vars == <<ui, cmdDefs, controls, created, handlers, activeProduct, disk, msgs, call, origin>>

----------------------------------------------------------------------------
(* Bounds and input sets *)

MaxRecords == 2
MaxHandlers == 13

Names == {"A", "B"}
None == "<None>"
Path == "params.json"

CmdIds == <<"FusionParamsImport", "FusionParamsExport">>
CmdIdSet == {CmdIds[i] : i \in 1..Len(CmdIds)}

\* The host evaluates expressions; it raises on one it cannot evaluate.
InvalidExprs == {"bad"}

\* Shapes of ParameterRecord a file may hold (without the name).
Bodies ==
    { [expression |-> "7 mm"],
      [expression |-> "7 mm", comment |-> "c"],
      [expression |-> "bad"],
      [value |-> 25],
      [value |-> 25, unit |-> "mm", comment |-> ""],
      [value |-> 25, unit |-> ""] }

WithName(body, n) == [k \in DOMAIN body \cup {"name"} |-> IF k = "name" THEN n ELSE body[k]]

Records == {WithName(b, n) : b \in Bodies, n \in Names}

RECURSIVE SeqsUpTo(_, _)
SeqsUpTo(S, n) ==
    IF n = 0 THEN {<<>>}
    ELSE LET shorter == SeqsUpTo(S, n - 1)
         IN  shorter \cup {Append(s, x) : s \in {t \in shorter : Len(t) = n - 1}, x \in S}

RecordSeqs == SeqsUpTo(Records, MaxRecords)

\* ParameterFile payloads: defaultUnit is optional.
Payloads ==
    {[parameters |-> ps] : ps \in RecordSeqs}
    \cup {[defaultUnit |-> "in", parameters |-> ps] : ps \in RecordSeqs}

NoPayload == [parameters |-> <<>>]
Absent == [kind |-> "absent", payload |-> NoPayload]
Text == [kind |-> "text", payload |-> NoPayload]
Partial == [kind |-> "partial", payload |-> NoPayload]
Json(payload) == [kind |-> "json", payload |-> payload]

\* Parameters a design holds before the add-in touches it.
StartParam(n) == [name |-> n, expression |-> "1 in", unit |-> "in", comment |-> "old"]
StartDocs == {<<>>, <<StartParam("A")>>, <<StartParam("A"), StartParam("B")>>}

NoDesign == [isDesign |-> FALSE, parentDocument |-> None, userParameters |-> <<>>]
Design(doc, params) == [isDesign |-> TRUE, parentDocument |-> doc, userParameters |-> params]

----------------------------------------------------------------------------
(* Pure helpers *)

\* dict.get(key, default)
Get(d, key, default) == IF key \in DOMAIN d THEN d[key] ELSE default

\* x or y, for strings and None
Or(x, y) == IF x = None \/ x = "" THEN y ELSE x

\* make_value_string(val, unit), val a number
make_value_string(val, unit) ==
    IF unit # "" /\ unit # None
    THEN ToString(val) \o " " \o unit
    ELSE ToString(val)

\* Mutant of FindByName: the lookup never matches.
FindByName_NeverMatches(userParams, name) == 0

\* index of the first parameter named name, 0 when there is none
FindByName(userParams, name) ==
    IF \E i \in 1..Len(userParams) : userParams[i].name = name
    THEN CHOOSE i \in 1..Len(userParams) :
            /\ userParams[i].name = name
            /\ \A j \in 1..(i - 1) : userParams[j].name # name
    ELSE 0

HostRejects(expr) == expr \in InvalidExprs

\* Mutant of upsert_user_param: an update without a comment clears the comment.
upsert_user_param_ClearsComment(userParams, name, arg, default_unit, comment) ==
    LET existing == FindByName(userParams, name)
        expr == IF arg.isStr THEN arg.str ELSE make_value_string(arg.num, default_unit)
    IN  IF name = None \/ HostRejects(expr)
        THEN [userParameters |-> userParams, exc |-> "RuntimeError"]
        ELSE IF existing # 0
        THEN [userParameters |->
                 [userParams EXCEPT ![existing] =
                     [@ EXCEPT !.expression = expr, !.comment = Or(comment, "")]],
              exc |-> ""]
        ELSE [userParameters |->
                 Append(userParams,
                        [name |-> name, expression |-> expr,
                         unit |-> Or(default_unit, ""), comment |-> Or(comment, "")]),
              exc |-> ""]

\* upsert_user_param: arg = [isStr, str, num] is expr_or_val.
\* Returns the collection and the exception raised ("" when it returns).
upsert_user_param(userParams, name, arg, default_unit, comment) ==
    LET existing == FindByName(userParams, name)
        expr == IF arg.isStr THEN arg.str ELSE make_value_string(arg.num, default_unit)
    IN  IF name = None \/ HostRejects(expr)
        THEN [userParameters |-> userParams, exc |-> "RuntimeError"]
        ELSE IF existing # 0
        THEN [userParameters |->
                 [userParams EXCEPT ![existing] =
                     [@ EXCEPT !.expression = expr,
                               !.comment = IF comment # None THEN comment ELSE @]],
              exc |-> ""]
        ELSE [userParameters |->
                 Append(userParams,
                        [name |-> name, expression |-> expr,
                         unit |-> Or(default_unit, ""), comment |-> Or(comment, "")]),
              exc |-> ""]

StrArg(s) == [isStr |-> TRUE, str |-> s, num |-> 0]
NumArg(v) == [isStr |-> FALSE, str |-> "", num |-> v]

\* Mutant of ApplyRecord: the record's own unit is ignored.
ApplyRecord_DefaultUnitOnly(userParams, p, default_unit) ==
    LET name == Get(p, "name", None)
        comment == Get(p, "comment", None)
    IN  IF "expression" \in DOMAIN p
        THEN upsert_user_param(userParams, name, StrArg(p.expression), "", comment)
        ELSE upsert_user_param(userParams, name, NumArg(p.value), default_unit, comment)

\* One iteration of the loop of apply_params_from_json.
ApplyRecord(userParams, p, default_unit) ==
    LET name == Get(p, "name", None)
        comment == Get(p, "comment", None)
    IN  IF "expression" \in DOMAIN p
        THEN upsert_user_param(userParams, name, StrArg(p.expression), "", comment)
        ELSE upsert_user_param(userParams, name, NumArg(p.value),
                               Get(p, "unit", default_unit), comment)

\* Mutant of ApplyRecords: a record that raises is skipped and the loop goes on.
RECURSIVE ApplyRecords_SkipsFailed(_, _, _, _)
ApplyRecords_SkipsFailed(userParams, params, default_unit, i) ==
    IF i > Len(params)
    THEN [userParameters |-> userParams, exc |-> ""]
    ELSE LET r == ApplyRecord(userParams, params[i], default_unit)
         IN  ApplyRecords_SkipsFailed(r.userParameters, params, default_unit, i + 1)

\* The loop over params from record i on: stops at the first record that raises.
RECURSIVE ApplyRecords(_, _, _, _)
ApplyRecords(userParams, params, default_unit, i) ==
    IF i > Len(params)
    THEN [userParameters |-> userParams, exc |-> ""]
    ELSE LET r == ApplyRecord(userParams, params[i], default_unit)
         IN  IF r.exc # "" THEN r
             ELSE ApplyRecords(r.userParameters, params, default_unit, i + 1)

----------------------------------------------------------------------------
(* Import *)

DialogResults == {"DialogOK", "DialogCancel"}

\* What open(path, 'r') followed by json.load raises ("" when it parses).
LoadError(d, io) ==
    IF d.kind = "absent" THEN "FileNotFoundError"
    ELSE IF io = "denied" THEN "PermissionError"
    ELSE IF d.kind # "json" THEN "JSONDecodeError"
    ELSE ""

AppliedMsg(n) == "Applied " \o ToString(n) \o " parameter(s) from:" \o Path
ExportedMsg(n) == "Exported " \o ToString(n) \o " parameter(s) to:" \o Path
NoDesignMsg == "No active Fusion design."
FailedApplyMsg(exc) == "Failed to apply params:" \o exc
FailedExportMsg(exc) == "Failed to export params:" \o exc

\* The try block of apply_params_from_json.
ApplyBody(product, d, io) ==
    IF ~product.isDesign
    THEN [userParameters |-> product.userParameters, msgs |-> <<NoDesignMsg>>, exc |-> ""]
    ELSE IF LoadError(d, io) # ""
    THEN [userParameters |-> product.userParameters, msgs |-> <<>>, exc |-> LoadError(d, io)]
    ELSE LET payload == d.payload
             default_unit == Get(payload, "defaultUnit", "")
             params == Get(payload, "parameters", <<>>)
             r == ApplyRecords(product.userParameters, params, default_unit, 1)
         IN  [userParameters |-> r.userParameters,
              msgs |-> IF r.exc = "" THEN <<AppliedMsg(Len(params))>> ELSE <<>>,
              exc |-> r.exc]

\* Mutant of apply_params_from_json: no except clause.
apply_params_from_json_NoExcept(product, d, io) ==
    LET b == ApplyBody(product, d, io)
    IN  [userParameters |-> b.userParameters, msgs |-> b.msgs, exc |-> b.exc]

\* apply_params_from_json: the try block and its bare except.
apply_params_from_json(product, d, io) ==
    LET b == ApplyBody(product, d, io)
    IN  [userParameters |-> b.userParameters,
         msgs |-> IF b.exc = "" THEN b.msgs ELSE b.msgs \o <<FailedApplyMsg(b.exc)>>,
         exc |-> ""]

----------------------------------------------------------------------------
(* Export *)

\* Mutant of ExportRecord: the comment is not exported.
ExportRecord_NoComment(p) ==
    [name |-> p.name, expression |-> p.expression, comment |-> ""]

ExportRecord(p) ==
    [name |-> p.name, expression |-> p.expression, comment |-> Or(p.comment, "")]

\* Mutant of ExportOut: the records are written last to first.
ExportOut_Reversed(product) ==
    [design |-> IF product.parentDocument # None THEN product.parentDocument
                ELSE "ActiveDesign",
     defaultUnit |-> "",
     parameters |-> [i \in 1..Len(product.userParameters) |->
                        ExportRecord(product.userParameters[
                            Len(product.userParameters) + 1 - i])]]

\* The structure out that export_params_to_json builds.
ExportOut(product) ==
    [design |-> IF product.parentDocument # None THEN product.parentDocument
                ELSE "ActiveDesign",
     defaultUnit |-> "",
     parameters |-> [i \in 1..Len(product.userParameters) |->
                        ExportRecord(product.userParameters[i])]]

\* The file after open(path, 'w') and json.dump(out, f): open fails before it
\* touches the file; open truncates, and a failing write leaves what was written.
WriteFile(d, out, io) ==
    IF io = "denied" THEN [disk |-> d, exc |-> "PermissionError"]
    ELSE IF io = "ioerror" THEN [disk |-> Partial, exc |-> "OSError"]
    ELSE [disk |-> Json(out), exc |-> ""]

\* The try block of export_params_to_json.
ExportBody(product, d, io) ==
    IF ~product.isDesign
    THEN [disk |-> d, msgs |-> <<NoDesignMsg>>, exc |-> ""]
    ELSE LET out == ExportOut(product)
             w == WriteFile(d, out, io)
         IN  [disk |-> w.disk,
              msgs |-> IF w.exc = "" THEN <<ExportedMsg(Len(out.parameters))>> ELSE <<>>,
              exc |-> w.exc]

\* export_params_to_json: the try block and its bare except.
export_params_to_json(product, d, io) ==
    LET b == ExportBody(product, d, io)
    IN  [disk |-> b.disk,
         msgs |-> IF b.exc = "" THEN b.msgs ELSE b.msgs \o <<FailedExportMsg(b.exc)>>,
         exc |-> ""]

----------------------------------------------------------------------------
(* Execute handlers *)

ImportId == CmdIds[1]
ExportId == CmdIds[2]

\* Mutant of ImportNotify: the dialog's result is not looked at.
ImportNotify_IgnoresDialog(product, d, dlg, io) ==
    LET r == apply_params_from_json(product, d, io)
    IN  [userParameters |-> r.userParameters, msgs |-> r.msgs, exc |-> ""]

\* ImportParamsCommandExecuteHandler.notify
ImportNotify(product, d, dlg, io) ==
    IF dlg # "DialogOK"
    THEN [userParameters |-> product.userParameters, msgs |-> <<>>, exc |-> ""]
    ELSE LET r == apply_params_from_json(product, d, io)
         IN  [userParameters |-> r.userParameters,
              msgs |-> IF r.exc = "" THEN r.msgs
                       ELSE r.msgs \o <<"Error (Import execute):" \o r.exc>>,
              exc |-> ""]

\* ExportParamsCommandExecuteHandler.notify
ExportNotify(product, d, dlg, io) ==
    IF dlg # "DialogOK"
    THEN [disk |-> d, msgs |-> <<>>, exc |-> ""]
    ELSE LET r == export_params_to_json(product, d, io)
         IN  [disk |-> r.disk,
              msgs |-> IF r.exc = "" THEN r.msgs
                       ELSE r.msgs \o <<"Error (Export execute):" \o r.exc>>,
              exc |-> ""]

Call(op, dlg, io, product, d, exc) ==
    [op |-> op, dialog |-> dlg, io |-> io, product |-> product, disk |-> d, exc |-> exc]

OtherCall(op) == Call(op, "", "", NoDesign, Absent, "")

NoOrigin == [valid |-> FALSE, userParameters |-> <<>>]

regVars == <<ui, cmdDefs, controls, created, handlers>>

\* The user runs the import command: the execute handler is called.
ImportExecute ==
    /\ ui
    /\ created[ImportId] >= 1
    /\ \E dlg \in DialogResults, io \in {"ok", "denied"} :
          /\ dlg = "DialogCancel" => io = "ok"
          /\ LET r == ImportNotify(activeProduct, disk, dlg, io)
             IN  /\ activeProduct' = [activeProduct EXCEPT !.userParameters = r.userParameters]
                 /\ msgs' = r.msgs
                 /\ call' = Call("import", dlg, io, activeProduct, disk, r.exc)
    /\ UNCHANGED <<disk, regVars, origin>>

\* The user runs the export command: the execute handler is called.
ExportExecute ==
    /\ ui
    /\ created[ExportId] >= 1
    /\ \E dlg \in DialogResults, io \in {"ok", "denied", "ioerror"} :
          /\ dlg = "DialogCancel" => io = "ok"
          /\ LET r == ExportNotify(activeProduct, disk, dlg, io)
             IN  /\ disk' = r.disk
                 /\ msgs' = r.msgs
                 /\ call' = Call("export", dlg, io, activeProduct, disk, r.exc)
                 /\ origin' = IF dlg = "DialogOK" /\ activeProduct.isDesign /\ io = "ok"
                              THEN [valid |-> TRUE,
                                    userParameters |-> activeProduct.userParameters]
                              ELSE IF r.disk # disk THEN NoOrigin ELSE origin
    /\ UNCHANGED <<activeProduct, regVars>>

----------------------------------------------------------------------------
(* Command registration *)

Registry == [cmdDefs |-> cmdDefs, controls |-> controls, created |-> created,
             handlers |-> handlers]

EmptyRegistry == [cmdDefs |-> [c \in CmdIdSet |-> 0], controls |-> [c \in CmdIdSet |-> 0],
                  created |-> [c \in CmdIdSet |-> 0], handlers |-> 0]

\* Mutant of add_command: the control is added without looking for an existing one.
add_command_NoControlCheck(reg, cmd_id) ==
    [cmdDefs |-> IF reg.cmdDefs[cmd_id] = 0
                 THEN [reg.cmdDefs EXCEPT ![cmd_id] = 1]
                 ELSE reg.cmdDefs,
     created |-> [reg.created EXCEPT ![cmd_id] = @ + 1],
     handlers |-> reg.handlers + 2,
     controls |-> [reg.controls EXCEPT ![cmd_id] = @ + 1]]

\* add_command, with the workspace and the panel present.
add_command(reg, cmd_id) ==
    [cmdDefs |-> IF reg.cmdDefs[cmd_id] = 0
                 THEN [reg.cmdDefs EXCEPT ![cmd_id] = 1]
                 ELSE reg.cmdDefs,
     created |-> [reg.created EXCEPT ![cmd_id] = @ + 1],
     handlers |-> reg.handlers + 2,
     controls |-> IF reg.controls[cmd_id] = 0
                  THEN [reg.controls EXCEPT ![cmd_id] = @ + 1]
                  ELSE reg.controls]

\* The two add_command calls of run.
RunCommands(reg) == add_command(add_command(reg, ImportId), ExportId)

\* One iteration of the loop of stop: itemById gives one item, deleteMe removes it.
RemoveCommand(reg, cmd_id) ==
    LET defsLeft == IF reg.cmdDefs[cmd_id] > 0 THEN reg.cmdDefs[cmd_id] - 1 ELSE 0
    IN  [cmdDefs |-> [reg.cmdDefs EXCEPT ![cmd_id] = defsLeft],
         created |-> [reg.created EXCEPT ![cmd_id] = IF defsLeft = 0 THEN 0 ELSE @],
         handlers |-> reg.handlers,
         controls |-> [reg.controls EXCEPT
                          ![cmd_id] = IF @ > 0 THEN @ - 1 ELSE 0]]

\* The loop of stop over both ids.
StopCommands(reg) == RemoveCommand(RemoveCommand(reg, ImportId), ExportId)

SetRegistry(reg) ==
    /\ cmdDefs' = reg.cmdDefs
    /\ controls' = reg.controls
    /\ created' = reg.created
    /\ handlers' = reg.handlers

\* run(context)
Run ==
    /\ handlers + 4 <= MaxHandlers
    /\ ui' = TRUE
    /\ SetRegistry(RunCommands(Registry))
    /\ msgs' = <<>>
    /\ call' = OtherCall("run")
    /\ UNCHANGED <<activeProduct, disk, origin>>

\* stop(context): with _ui unset the first line raises and the except passes.
Stop ==
    /\ SetRegistry(IF ui THEN StopCommands(Registry) ELSE Registry)
    /\ msgs' = <<>>
    /\ call' = OtherCall("stop")
    /\ UNCHANGED <<ui, activeProduct, disk, origin>>

\* CommandCreatedHandler.notify: hooks the execute handler and keeps it alive.
CommandCreated ==
    /\ ui
    /\ handlers < MaxHandlers
    /\ \E id \in CmdIdSet : controls[id] >= 1 /\ created[id] >= 1
    /\ handlers' = handlers + 1
    /\ msgs' = <<>>
    /\ call' = OtherCall("created")
    /\ UNCHANGED <<ui, cmdDefs, controls, created, activeProduct, disk, origin>>

----------------------------------------------------------------------------
(* The host and the user outside the add-in *)

\* An untitled empty design, and saved designs that hold parameters.
StartDesigns ==
    {IF d = <<>> THEN Design(None, d) ELSE Design("Plate", d) : d \in StartDocs}

\* The user opens another design.
NewDesign ==
    /\ activeProduct' \in StartDesigns
    /\ msgs' = <<>>
    /\ call' = OtherCall("new")
    /\ UNCHANGED <<disk, regVars, origin>>

\* The user closes the design: no design is active.
CloseDesign ==
    /\ activeProduct.isDesign
    /\ activeProduct' = NoDesign
    /\ msgs' = <<>>
    /\ call' = OtherCall("close")
    /\ UNCHANGED <<disk, regVars, origin>>

----------------------------------------------------------------------------
(* Specifications *)

\* The add-in from its loading on: lifecycle, commands and a few files.
SmallDisks == {Absent, Text,
               Json([defaultUnit |-> "mm",
                     parameters |-> <<[name |-> "A", value |-> 100],
                                      [name |-> "B", expression |-> "45 deg",
                                       comment |-> "tilt"]>>])}

Init ==
    /\ ui = FALSE
    /\ cmdDefs = EmptyRegistry.cmdDefs
    /\ controls = EmptyRegistry.controls
    /\ created = EmptyRegistry.created
    /\ handlers = 0
    /\ activeProduct \in {NoDesign, Design(None, <<>>)}
    /\ disk \in SmallDisks
    /\ msgs = <<>>
    /\ call = OtherCall("init")
    /\ origin = NoOrigin

Next ==
    \/ Run
    \/ Stop
    \/ CommandCreated
    \/ ImportExecute
    \/ ExportExecute
    \/ NewDesign
    \/ CloseDesign

Spec == Init /\ [][Next]_vars

\* The synchronizer after run: every file shape against every starting design.
InitSync ==
    /\ ui = TRUE
    /\ cmdDefs = RunCommands(EmptyRegistry).cmdDefs
    /\ controls = RunCommands(EmptyRegistry).controls
    /\ created = RunCommands(EmptyRegistry).created
    /\ handlers = RunCommands(EmptyRegistry).handlers
    /\ activeProduct \in StartDesigns
    /\ disk \in {Absent, Text} \cup {Json(f) : f \in Payloads}
    /\ msgs = <<>>
    /\ call = OtherCall("init")
    /\ origin = NoOrigin

NextSync ==
    \/ ImportExecute
    \/ ExportExecute
    \/ NewDesign
    \/ CloseDesign

SpecSync == InitSync /\ [][NextSync]_vars

----------------------------------------------------------------------------
(* Vocabulary of the properties *)

docParams == activeProduct.userParameters
docBefore == call.product.userParameters
fileParams == call.disk.payload.parameters
fileDefaultUnit ==
    IF "defaultUnit" \in DOMAIN call.disk.payload THEN call.disk.payload.defaultUnit ELSE ""

NamesOf(ps) == {ps[i].name : i \in 1..Len(ps)}
Triple(p) == <<p.name, p.expression, p.comment>>
Triples(ps) == [i \in 1..Len(ps) |-> Triple(ps[i])]

\* An import whose dialog was confirmed, with a design active and the file parsed.
ImportRan ==
    /\ call.op = "import"
    /\ call.dialog = "DialogOK"
    /\ call.io = "ok"
    /\ call.product.isDesign
    /\ call.disk.kind = "json"

\* The expression a record stands for, as the file format defines it.
Resolved(rec, defaultUnit) ==
    IF "expression" \in DOMAIN rec THEN rec.expression
    ELSE LET unit == IF "unit" \in DOMAIN rec THEN rec.unit ELSE defaultUnit
         IN  IF unit # "" THEN ToString(rec.value) \o " " \o unit ELSE ToString(rec.value)

Rejected(rec) == Resolved(rec, fileDefaultUnit) \in InvalidExprs

\* The first record of the file the host rejects; Len + 1 when it accepts all.
FirstRejected ==
    IF \E i \in 1..Len(fileParams) : Rejected(fileParams[i])
    THEN CHOOSE i \in 1..Len(fileParams) :
            /\ Rejected(fileParams[i])
            /\ \A j \in 1..(i - 1) : ~Rejected(fileParams[j])
    ELSE Len(fileParams) + 1

\* The parameters after the first i records of the file were upserted.
Stage(i) ==
    IF i = Len(fileParams) /\ FirstRejected > i THEN docParams
    ELSE ApplyRecords(docBefore, SubSeq(fileParams, 1, i), fileDefaultUnit, 1).userParameters

ImportFailures ==
    {NoDesignMsg} \cup {FailedApplyMsg(e) : e \in {"FileNotFoundError", "PermissionError",
                                                   "JSONDecodeError", "RuntimeError"}}

----------------------------------------------------------------------------
RoundTripCase ==
    /\ ImportRan
    /\ origin.valid
    /\ NamesOf(docBefore) \cap NamesOf(origin.userParameters) = {}

(* C1: exporting a design's parameters and importing the written file into  *)
(* a fresh design that has none of those names yields parameters with the   *)
(* same name, expression and comment as the originals, in the same order.   *)
RoundTrip ==
    RoundTripCase =>
        /\ Triples(SelectSeq(docParams, LAMBDA p : p.name \in NamesOf(origin.userParameters)))
              = Triples(origin.userParameters)
        /\ SubSeq(docParams, 1, Len(docBefore)) = docBefore

RoundTripWitness ==
    /\ RoundTripCase
    /\ Len(origin.userParameters) = 2
    /\ \E i \in 1..2 : origin.userParameters[i].comment # ""
    /\ \E i \in 1..2 : origin.userParameters[i].comment = ""
    /\ Len(docParams) = 2

SecondImport ==
    /\ call.op = "import" /\ call.dialog = "DialogOK" /\ call.io = "ok"
    /\ call'.op = "import" /\ call'.dialog = "DialogOK" /\ call'.io = "ok"

(* C2: importing the same file a second time leaves the parameter           *)
(* collection as the first import left it.                                  *)
ImportIdempotent == [][SecondImport => activeProduct' = activeProduct]_vars

ImportIdempotentWitness ==
    /\ ImportRan
    /\ docParams = docBefore
    /\ Len(fileParams) >= 2
    /\ fileParams[1].name = fileParams[2].name
    /\ "comment" \in DOMAIN fileParams[1]
    /\ "comment" \notin DOMAIN fileParams[2]
    /\ msgs = <<AppliedMsg(Len(fileParams))>>

UpsertPost(old, rec, new) ==
    LET hits == {i \in 1..Len(old) : old[i].name = rec.name}
        expr == Resolved(rec, fileDefaultUnit)
    IN  IF hits # {}
        THEN /\ Len(new) = Len(old)
             /\ \A i \in 1..Len(old) :
                   IF i \in hits
                   THEN /\ new[i].name = rec.name
                        /\ new[i].expression = expr
                        /\ new[i].comment = IF "comment" \in DOMAIN rec THEN rec.comment
                                            ELSE old[i].comment
                   ELSE new[i] = old[i]
        ELSE /\ Len(new) = Len(old) + 1
             /\ SubSeq(new, 1, Len(old)) = old
             /\ new[Len(new)].name = rec.name
             /\ new[Len(new)].expression = expr

(* C3: an upsert that returns either updates the one parameter of that      *)
(* exact name in place (expression set, comment overwritten only when the   *)
(* record has one, count and other parameters unchanged) or, when no        *)
(* parameter has the name, appends exactly one new parameter.               *)
UpsertByName ==
    ImportRan =>
        \A i \in 1..Len(fileParams) :
            i < FirstRejected => UpsertPost(Stage(i - 1), fileParams[i], Stage(i))

UpsertByNameWitness ==
    /\ ImportRan
    /\ Len(fileParams) = 2
    /\ FirstRejected = 3
    /\ Len(docBefore) = 1
    /\ fileParams[1].name \in NamesOf(docBefore)
    /\ fileParams[2].name \notin NamesOf(docBefore)
    /\ "comment" \notin DOMAIN fileParams[1]
    /\ Len(docParams) = 2

ImportSucceeded == ImportRan /\ msgs = <<AppliedMsg(Len(fileParams))>>

(* C4: after an import, each name of the file carries the expression of its *)
(* last record: the record's expression verbatim, else "<value> <unit>"     *)
(* with the record's unit or the file's defaultUnit, or "<value>" when      *)
(* that unit is empty.                                                      *)
ExpressionResolved ==
    ImportSucceeded =>
        \A i \in 1..Len(fileParams) :
            (\A j \in (i + 1)..Len(fileParams) : fileParams[j].name # fileParams[i].name)
            => /\ Cardinality({k \in 1..Len(docParams) : docParams[k].name = fileParams[i].name}) = 1
               /\ \A k \in 1..Len(docParams) :
                     docParams[k].name = fileParams[i].name
                     => docParams[k].expression = Resolved(fileParams[i], fileDefaultUnit)

ExpressionResolvedWitness ==
    /\ ImportSucceeded
    /\ fileDefaultUnit = "in"
    /\ fileParams = <<[name |-> "A", value |-> 25],
                      [name |-> "B", value |-> 25, unit |-> "mm", comment |-> ""]>>
    /\ \E k \in 1..Len(docParams) : docParams[k].name = "A" /\ docParams[k].expression = "25 in"
    /\ \E k \in 1..Len(docParams) : docParams[k].name = "B" /\ docParams[k].expression = "25 mm"

ExportRan ==
    /\ call.op = "export"
    /\ call.dialog = "DialogOK"
    /\ call.product.isDesign

(* C5: a successful export writes defaultUnit "" and one record per         *)
(* parameter, in the design's order, with its name, expression and comment; *)
(* it reports that count and leaves the design's parameters unchanged.      *)
ExportContent ==
    /\ call.op = "export" => activeProduct = call.product
    /\ (ExportRan /\ call.io = "ok") =>
          /\ disk.kind = "json"
          /\ disk.payload.defaultUnit = ""
          /\ Len(disk.payload.parameters) = Len(docParams)
          /\ \A i \in 1..Len(docParams) :
                disk.payload.parameters[i] =
                    [name |-> docParams[i].name, expression |-> docParams[i].expression,
                     comment |-> docParams[i].comment]
          /\ msgs = <<ExportedMsg(Len(docParams))>>

ExportContentWitness ==
    /\ ExportRan
    /\ call.io = "ok"
    /\ Len(docParams) = 2
    /\ docParams[1].comment = ""
    /\ docParams[2].comment # ""
    /\ docParams[1].expression # docParams[2].expression

ExportFailed == call.op = "export" /\ call.dialog = "DialogOK" /\ msgs # <<ExportedMsg(Len(docParams))>>

(* C6: a failing export leaves the file untouched or complete, never        *)
(* truncated or partly written.                                             *)
NoPartialFile ==
    ExportFailed => (disk = call.disk \/ (disk.kind = "json" /\ disk.payload = ExportOut(activeProduct)))

ImportAbortCase ==
    /\ call.op = "import"
    /\ call.dialog = "DialogOK"
    /\ \/ ~call.product.isDesign
       \/ call.disk.kind # "json"
       \/ call.io = "denied"

(* C7: an import with no active design, or whose file is missing,           *)
(* unreadable or not JSON, changes no parameter, shows exactly one failure  *)
(* message and lets no exception escape.                                    *)
ImportAbortsCleanly ==
    ImportAbortCase =>
        /\ activeProduct = call.product
        /\ Len(msgs) = 1
        /\ msgs[1] \in ImportFailures
        /\ call.exc = ""

ImportAbortsCleanlyWitness ==
    /\ ImportAbortCase
    /\ call.product.isDesign
    /\ Len(docBefore) = 2
    /\ call.disk.kind = "text"
    /\ msgs = <<FailedApplyMsg("JSONDecodeError")>>

(* C8: a dismissed file dialog shows no message, changes no parameter and   *)
(* writes no file.                                                          *)
CancelSilent ==
    (call.op \in {"import", "export"} /\ call.dialog # "DialogOK") =>
        /\ msgs = <<>>
        /\ activeProduct = call.product
        /\ disk = call.disk
        /\ call.exc = ""

CancelSilentWitness ==
    /\ call.op = "import"
    /\ call.dialog = "DialogCancel"
    /\ call.product.isDesign
    /\ call.disk.kind = "json"
    /\ Len(fileParams) = 2
    /\ FirstRejected = 3

(* C9: an import stops at the first record whose upsert raises: the records *)
(* ahead of it stay applied, none from it on is applied, a failure message  *)
(* is shown and the success message is not; the success message, with the   *)
(* number of records of the file, is shown only when all were upserted.     *)
BestEffortBatch ==
    ImportRan =>
        IF FirstRejected <= Len(fileParams)
        THEN /\ docParams = ApplyRecords(docBefore, SubSeq(fileParams, 1, FirstRejected - 1),
                                      fileDefaultUnit, 1).userParameters
             /\ msgs = <<FailedApplyMsg("RuntimeError")>>
        ELSE /\ msgs = <<AppliedMsg(Len(fileParams))>>
             /\ NamesOf(fileParams) \subseteq NamesOf(docParams)

BestEffortBatchWitness ==
    /\ ImportRan
    /\ Len(fileParams) = 2
    /\ FirstRejected = 2
    /\ docParams # docBefore
    /\ Len(docParams) = Len(docBefore) + 1
    /\ msgs = <<FailedApplyMsg("RuntimeError")>>

(* C10: each command id has at most one definition and at most one panel    *)
(* control, and right after stop it has neither.                            *)
SingleRegistration ==
    \A id \in CmdIdSet :
        /\ cmdDefs[id] <= 1
        /\ controls[id] <= 1
        /\ call.op = "stop" => (cmdDefs[id] = 0 /\ controls[id] = 0)

SingleRegistrationWitness ==
    /\ call.op = "run"
    /\ \A id \in CmdIdSet : created[id] = 2 /\ cmdDefs[id] = 1 /\ controls[id] = 1

====
